---- MODULE Spec2Model ----
(***************************************************************************)
(* A model of immanager: gui.py (load / search / cluster callbacks, the    *)
(* SMB URL parser and the SMB directory walk), src/search.py,              *)
(* src/clustering.py and src/image_embeddings.py.                          *)
(*                                                                         *)
(* Text is modelled as a sequence of atoms.  An atom is one character      *)
(* ("/", "a", ":") or an indivisible chunk of a name (".png", "..").       *)
(* A Python dict is a sequence of <<key, value>> pairs with distinct keys, *)
(* in insertion order.                                                     *)
(***************************************************************************)
EXTENDS Integers, Sequences, FiniteSets, TLC

VARIABLES state, ret, conn, args, out

vars == <<state, ret, conn, args, out>>

(* ---------------------------------------------------------------------- *)
(* Bounds of the model                                                     *)
(* ---------------------------------------------------------------------- *)
MaxUrlLen == 5
MaxFiles == 2
MaxFail == 1
MaxImages == 3
MaxTopK == 4

(* ---------------------------------------------------------------------- *)
(* Text helpers (Python str operations used by gui.py)                     *)
(* ---------------------------------------------------------------------- *)
Last(s) == s[Len(s)]

StartsWith(s, p) == Len(s) >= Len(p) /\ SubSeq(s, 1, Len(p)) = p

RECURSIVE Split(_)
Split(s) ==
    IF \A i \in 1..Len(s) : s[i] # "/"
    THEN <<s>>
    ELSE LET i == CHOOSE j \in 1..Len(s) :
                      s[j] = "/" /\ \A h \in 1..(j - 1) : s[h] # "/"
         IN <<SubSeq(s, 1, i - 1)>> \o Split(SubSeq(s, i + 1, Len(s)))

RECURSIVE JoinSlash(_)
JoinSlash(parts) ==
    IF parts = <<>> THEN <<>>
    ELSE IF Len(parts) = 1 THEN parts[1]
    ELSE parts[1] \o <<"/">> \o JoinSlash(Tail(parts))

Lower(atom) ==
    CASE atom = ".PNG" -> ".png"
      [] atom = ".JPG" -> ".jpg"
      [] atom = ".JPEG" -> ".jpeg"
      [] OTHER -> atom

ImageSuffixes == {".png", ".jpg", ".jpeg"}

IsImageName(filename) == filename # <<>> /\ Lower(Last(filename)) \in ImageSuffixes

PathJoin(top, name) ==
    IF name # <<>> /\ name[1] = "/" THEN name
    ELSE IF top = <<>> \/ Last(top) = "/" THEN top \o name
    ELSE top \o <<"/">> \o name

(* ---------------------------------------------------------------------- *)
(* parse_smb_url                                                           *)
(* ---------------------------------------------------------------------- *)
SmbPrefix == <<"s", "m", "b", ":", "/", "/">>

ParseError(msg) ==
    [ok |-> FALSE, error |-> msg, server |-> <<>>, share |-> <<>>, rel_path |-> <<>>]

parse_smb_url(url) ==
    IF ~StartsWith(url, SmbPrefix) THEN ParseError("Not an SMB URL")
    ELSE LET trimmed == SubSeq(url, Len(SmbPrefix) + 1, Len(url))
             parts == Split(trimmed)
         IN IF Len(parts) < 2
            THEN ParseError("SMB URL must contain at least server and share")
            ELSE [ok |-> TRUE, error |-> "",
                  server |-> parts[1],
                  share |-> parts[2],
                  rel_path |-> IF Len(parts) > 2 /\ parts[3] # <<>>
                               THEN <<"/">> \o JoinSlash(SubSeq(parts, 3, Len(parts)))
                               ELSE <<"/">>]

(* ---------------------------------------------------------------------- *)
(* The remote share: what conn.listPath answers                            *)
(* ---------------------------------------------------------------------- *)
Dir(name) == [filename |-> name, isDirectory |-> TRUE]
File(name) == [filename |-> name, isDirectory |-> FALSE]

Dot == Dir(<<".">>)
DotDot == Dir(<<"..">>)

ShareName == <<"a">>

\* A tree maps the segments of a directory path to the directory's listing.
Tree1 ==
    ( <<>> :> <<Dot, DotDot, Dir(<<"a">>), File(<<"p", ".png">>),
               Dir(<<"b">>), File(<<"n", ".txt">>)>> )
    @@ ( << <<"a">> >> :> <<Dot, DotDot, File(<<"q", ".JPG">>), Dir(<<"b">>)>> )
    @@ ( << <<"a">>, <<"b">> >> :> <<Dot, DotDot, File(<<"r", ".jpeg">>)>> )
    @@ ( << <<"b">> >> :> <<Dot, DotDot>> )

Tree2 ==
    ( <<>> :> <<Dir(<<"a">>), Dot, Dir(<<"b">>), DotDot, Dir(<<"c">>)>> )
    @@ ( << <<"a">> >> :> <<Dot, DotDot, Dir(<<"a">>), File(<<"s", ".png">>)>> )
    @@ ( << <<"a">>, <<"a">> >> :> <<Dot, DotDot, File(<<"p", ".png">>)>> )
    @@ ( << <<"b">> >> :> <<Dot, DotDot, File(<<"t", ".jpg">>), File(<<".png", ".bak">>)>> )

RemoteTrees == {Tree1, Tree2}

\* the names a directory holds, "." and ".." apart
ListedNames(tree, key, isDir) ==
    {tree[key][i].filename : i \in {j \in 1..Len(tree[key]) :
        /\ tree[key][j].isDirectory = isDir
        /\ tree[key][j].filename \notin {<<".">>, <<"..">>}}}

NonEmpty(part) == part # <<>>

Segments(path) == SelectSeq(Split(path), NonEmpty)

\* conn.listPath(share, top): the listing, or an exception (ok = FALSE).
\* listFail is the set of directories whose listing the server refuses.
listPath(tree, listFail, share, top) ==
    LET key == Segments(top)
    IN IF share = ShareName /\ key \in DOMAIN tree /\ key \notin listFail
       THEN [ok |-> TRUE, entries |-> tree[key]]
       ELSE [ok |-> FALSE, entries |-> <<>>]

(* ---------------------------------------------------------------------- *)
(* smb_walk                                                                *)
(* ---------------------------------------------------------------------- *)
IsListedDir(entry) == entry.filename \notin {<<".">>, <<"..">>} /\ entry.isDirectory
IsListedFile(entry) == entry.filename \notin {<<".">>, <<"..">>} /\ ~entry.isDirectory

RECURSIVE Names(_)
Names(entries) ==
    IF entries = <<>> THEN <<>> ELSE <<Head(entries).filename>> \o Names(Tail(entries))

RECURSIVE smb_walk_stop(_, _, _, _)
smb_walk_stop(tree, listFail, share, top) ==
    LET listing == listPath(tree, listFail, share, top)
    IN IF ~listing.ok THEN <<>>
       ELSE LET dirs == Names(SelectSeq(listing.entries, IsListedDir))
                files == Names(SelectSeq(listing.entries, IsListedFile))
                sub == [i \in 1..Len(dirs) |->
                          smb_walk_stop(tree, listFail, share, PathJoin(top, dirs[i]))]
                \* a failing child ends the walk of the siblings after it
                upto == IF \E i \in 1..Len(dirs) : sub[i] = <<>>
                        THEN CHOOSE i \in 1..Len(dirs) :
                                 sub[i] = <<>> /\ \A h \in 1..(i - 1) : sub[h] # <<>>
                        ELSE Len(dirs)
                Cat[i \in 0..Len(dirs)] == IF i = 0 THEN <<>> ELSE Cat[i - 1] \o sub[i]
            IN << <<top, dirs, files>> >> \o Cat[upto]

RECURSIVE smb_walk(_, _, _, _), smb_walk_dirs(_, _, _, _, _)
smb_walk(tree, listFail, share, top) ==
    LET listing == listPath(tree, listFail, share, top)
    IN IF ~listing.ok THEN <<>>
       ELSE LET dirs == Names(SelectSeq(listing.entries, IsListedDir))
                files == Names(SelectSeq(listing.entries, IsListedFile))
            IN << <<top, dirs, files>> >> \o smb_walk_dirs(tree, listFail, share, top, dirs)

smb_walk_dirs(tree, listFail, share, top, dirs) ==
    IF dirs = <<>> THEN <<>>
    ELSE smb_walk(tree, listFail, share, PathJoin(top, Head(dirs)))
         \o smb_walk_dirs(tree, listFail, share, top, Tail(dirs))

(* ---------------------------------------------------------------------- *)
(* dict helpers                                                            *)
(* ---------------------------------------------------------------------- *)
Range(s) == {s[i] : i \in 1..Len(s)}

KeySeq(d) == [i \in 1..Len(d) |-> d[i][1]]

Keys(d) == {d[i][1] : i \in 1..Len(d)}

HasKey(d, k) == \E i \in 1..Len(d) : d[i][1] = k

Get(d, k) == d[CHOOSE i \in 1..Len(d) : d[i][1] = k][2]

\* d[k] = v: an existing key keeps its position, a new key goes last
Put(d, k, v) ==
    IF HasKey(d, k)
    THEN [i \in 1..Len(d) |-> IF d[i][1] = k THEN <<k, v>> ELSE d[i]]
    ELSE Append(d, <<k, v>>)

(* ---------------------------------------------------------------------- *)
(* src/search.py                                                           *)
(* ---------------------------------------------------------------------- *)
Dot2(a, b) == a[1] * b[1] + a[2] * b[2]

\* The cosine dot(a, b) / (|a| |b|), kept exact as the dot product and the
\* squared product of the norms (both vectors are non-zero).
cosine_similarity(a, b) == [dot |-> Dot2(a, b), nsq |-> Dot2(a, a) * Dot2(b, b)]

\* s < t for two cosines
SimLess(s, t) ==
    CASE s.dot >= 0 /\ t.dot >= 0 -> s.dot * s.dot * t.nsq < t.dot * t.dot * s.nsq
      [] s.dot < 0 /\ t.dot >= 0 -> TRUE
      [] s.dot >= 0 /\ t.dot < 0 -> FALSE
      [] OTHER -> s.dot * s.dot * t.nsq > t.dot * t.dot * s.nsq

InsertAsc(sorted, item) ==
    LET after == {i \in 1..Len(sorted) : ~SimLess(item[2], sorted[i][2])}
        n == IF after = {} THEN 0 ELSE CHOOSE i \in after : \A j \in after : j <= i
    IN SubSeq(sorted, 1, n) \o <<item>> \o SubSeq(sorted, n + 1, Len(sorted))

\* one step of the stable descending sort: the item goes behind every item
\* whose score is not smaller than its own
InsertDesc(sorted, item) ==
    LET before == {i \in 1..Len(sorted) : ~SimLess(sorted[i][2], item[2])}
        n == IF before = {} THEN 0 ELSE CHOOSE i \in before : \A j \in before : j <= i
    IN SubSeq(sorted, 1, n) \o <<item>> \o SubSeq(sorted, n + 1, Len(sorted))

SortedAsc(items) ==
    LET S[i \in 0..Len(items)] == IF i = 0 THEN <<>> ELSE InsertAsc(S[i - 1], items[i])
    IN S[Len(items)]

\* sorted(items, key=lambda item: item[1], reverse=True)
SortedDesc(items) ==
    LET S[i \in 0..Len(items)] == IF i = 0 THEN <<>> ELSE InsertDesc(S[i - 1], items[i])
    IN S[Len(items)]

\* s[:top_k]
SliceTo(s, top_k) ==
    IF top_k >= 0
    THEN SubSeq(s, 1, IF top_k < Len(s) THEN top_k ELSE Len(s))
    ELSE SubSeq(s, 1, IF Len(s) + top_k > 0 THEN Len(s) + top_k ELSE 0)

search_similar_images(text_embedding, image_embeddings, top_k) ==
    LET similarities == [i \in 1..Len(image_embeddings) |->
                            <<image_embeddings[i][1],
                              cosine_similarity(text_embedding, image_embeddings[i][2])>>]
    IN SliceTo(SortedDesc(similarities), top_k)

(* ---------------------------------------------------------------------- *)
(* src/clustering.py                                                       *)
(* ---------------------------------------------------------------------- *)
\* KMeans(n_clusters=k).fit on n samples: it raises ValueError when n < k,
\* and otherwise labels every sample with one of 0..k-1.
KMeansFit(n, k) ==
    IF n < k
    THEN {[raised |-> TRUE, labels_ |-> <<>>]}
    ELSE {[raised |-> FALSE, labels_ |-> l] : l \in [1..n -> 0..(k - 1)]}

\* the filenames whose label is i, in dict order
RECURSIVE Labelled(_, _, _)
Labelled(filenames, labels, i) ==
    IF filenames = <<>> THEN <<>>
    ELSE (IF Head(labels) = i THEN <<Head(filenames)>> ELSE <<>>)
         \o Labelled(Tail(filenames), Tail(labels), i)

\* cluster_images, given the outcome of the KMeans fit
cluster_images(image_embeddings, num_clusters, kmeans) ==
    LET filenames == KeySeq(image_embeddings)
    IN IF kmeans.raised
       THEN [raised |-> TRUE, clusters |-> <<>>]
       ELSE [raised |-> FALSE,
             clusters |-> [i \in 0..(num_clusters - 1) |->
                              Labelled(filenames, kmeans.labels_, i)]]

(* ---------------------------------------------------------------------- *)
(* src/image_embeddings.py                                                 *)
(* ---------------------------------------------------------------------- *)
Basename(path) == Last(Split(path))

\* Image.open(path).convert("RGB"): the decoded picture, named by its file
Pixels(path) == Basename(path)

\* model.encode_image on a preprocessed picture
ClipImage(pixels) ==
    CASE pixels[1] = "p" -> <<1, 0>>
      [] pixels[1] = "q" -> <<1, 1>>
      [] pixels[1] = "r" -> <<-1, 1>>
      [] pixels[1] = "s" -> <<2, 0>>
      [] pixels[1] = "t" -> <<0, 1>>
      [] pixels[1] = "u" -> <<1, 1>>
      [] pixels[1] = "v" -> <<-1, -2>>
      [] OTHER -> <<2, 1>>

\* model.encode_text on a tokenized prompt
ClipText(prompt) ==
    CASE prompt = "cat" -> <<1, 0>>
      [] prompt = "dog" -> <<-1, 1>>
      [] OTHER -> <<1, 2>>

get_image_embeddings_by_name(images_dict) ==
    [i \in 1..Len(images_dict) |->
        <<Basename(images_dict[i][1]), ClipImage(images_dict[i][2])>>]

get_image_embeddings(images_dict) ==
    [i \in 1..Len(images_dict) |-> <<images_dict[i][1], ClipImage(images_dict[i][2])>>]

get_text_embedding(text) == ClipText(text)

(* ---------------------------------------------------------------------- *)
(* The local file system: what os.path.isdir and os.walk answer            *)
(* ---------------------------------------------------------------------- *)
LocalTree ==
    ( <<>> :> <<Dir(<<"a">>), File(<<"m", ".txt">>)>> )
    @@ ( << <<"a">> >> :> <<File(<<"l", ".png">>), Dir(<<"a">>), File(<<"w", ".gif">>)>> )
    @@ ( << <<"a">>, <<"a">> >> :> <<File(<<"k", ".JPEG">>)>> )

isdir(path) == Segments(path) \in DOMAIN LocalTree

IsDirEntry(entry) == entry.isDirectory
IsFileEntry(entry) == ~entry.isDirectory

RECURSIVE os_walk(_), os_walk_dirs(_, _)
os_walk(top) ==
    LET entries == LocalTree[Segments(top)]
        dirs == Names(SelectSeq(entries, IsDirEntry))
        files == Names(SelectSeq(entries, IsFileEntry))
    IN << <<top, dirs, files>> >> \o os_walk_dirs(top, dirs)

os_walk_dirs(top, dirs) ==
    IF dirs = <<>> THEN <<>>
    ELSE os_walk(PathJoin(top, Head(dirs))) \o os_walk_dirs(top, Tail(dirs))

(* ---------------------------------------------------------------------- *)
(* load_images_combined                                                    *)
(* ---------------------------------------------------------------------- *)
None == [isNone |-> TRUE, images |-> <<>>, embeddings |-> <<>>]

\* Opening the file raises when its name is in bad.
OpenFails(path, bad) == Basename(path) \in bad

\* for each path: try: images[path] = open(path) / except: print
\* (without the try: the first failure ends the loop)
RECURSIVE LoadEachAbort(_, _, _)
LoadEachAbort(paths, bad, acc) ==
    IF paths = <<>> THEN acc
    ELSE LET path == Head(paths)
             tried == Append(acc.attempted, path)
         IN IF OpenFails(path, bad)
            THEN [images |-> acc.images, attempted |-> tried]
            ELSE LoadEachAbort(Tail(paths), bad,
                     [images |-> Put(acc.images, path, Pixels(path)), attempted |-> tried])

RECURSIVE LoadEach(_, _, _)
LoadEach(paths, bad, acc) ==
    IF paths = <<>> THEN acc
    ELSE LET path == Head(paths)
             tried == Append(acc.attempted, path)
         IN LoadEach(Tail(paths), bad,
                [images |-> IF OpenFails(path, bad) THEN acc.images
                            ELSE Put(acc.images, path, Pixels(path)),
                 attempted |-> tried])

\* the full paths of the image-named files of one yielded (root, dirs, files)
RECURSIVE ImagePaths(_, _)
ImagePaths(root, files) ==
    IF files = <<>> THEN <<>>
    ELSE (IF IsImageName(Head(files)) THEN <<PathJoin(root, Head(files))>> ELSE <<>>)
         \o ImagePaths(root, Tail(files))

RECURSIVE WalkImagePaths(_)
WalkImagePaths(walk) ==
    IF walk = <<>> THEN <<>>
    ELSE ImagePaths(Head(walk)[1], Head(walk)[3]) \o WalkImagePaths(Tail(walk))

NoLoad == [images |-> <<>>, attempted |-> <<>>]

LoadReturn(raised, status, st, did, connects, closes) ==
    [raised |-> raised, error |-> IF raised THEN "OSError" ELSE "",
     status |-> status, state |-> st, attempted |-> did.attempted,
     connects |-> connects, closes |-> closes]

\* returning "No images loaded" from inside the walk, ahead of conn.close()
FinishUnclosed(did, connects, closes) ==
    IF did.images = <<>>
    THEN LoadReturn(FALSE, "No images loaded", None, did, connects, 0)
    ELSE LoadReturn(FALSE, "Images loaded successfully",
                    [isNone |-> FALSE, images |-> did.images,
                     embeddings |-> get_image_embeddings(did.images)],
                    did, connects, closes)

\* conn.close() where a connection was made, then lines 151-156: the images
\* loaded are embedded and returned
Finish(did, connects, closes) ==
    IF did.images = <<>>
    THEN LoadReturn(FALSE, "No images loaded", None, did, connects, closes)
    ELSE LoadReturn(FALSE, "Images loaded successfully",
                    [isNone |-> FALSE, images |-> did.images,
                     embeddings |-> get_image_embeddings(did.images)],
                    did, connects, closes)

\* env.connect is what conn.connect does: "ok" (True), "refused" (False, the
\* authentication failed) or "raises" (the socket cannot be opened);
\* env.tree and env.listFail are the share, env.bad the files that cannot be
\* retrieved or decoded.
load_images_combined(files, folder_path, env) ==
    IF files # <<>>
    THEN Finish(LoadEach(files, env.bad, NoLoad), 0, 0)
    ELSE IF folder_path # <<>>
    THEN IF StartsWith(folder_path, SmbPrefix)
         THEN LET parsed == parse_smb_url(folder_path)
              IN IF ~parsed.ok
                 THEN LoadReturn(FALSE, "Invalid SMB URL", None, NoLoad, 0, 0)
                 ELSE IF env.connect = "raises"
                 THEN LoadReturn(TRUE, "", None, NoLoad, 0, 0)
                 ELSE IF env.connect = "refused"
                 THEN LoadReturn(FALSE, "Connection failed.", None, NoLoad, 0, 0)
                 ELSE LET walk == smb_walk(env.tree, env.listFail, parsed.share,
                                           parsed.rel_path)
                      IN Finish(LoadEach(WalkImagePaths(walk), env.bad, NoLoad), 1, 1)
         ELSE IF isdir(folder_path)
         THEN Finish(LoadEach(WalkImagePaths(os_walk(folder_path)), env.bad, NoLoad), 0, 0)
         ELSE LoadReturn(FALSE, "Invalid folder path provided.", None, NoLoad, 0, 0)
    ELSE LoadReturn(FALSE, "No images provided", None, NoLoad, 0, 0)

(* ---------------------------------------------------------------------- *)
(* search_images and cluster_images_gui                                    *)
(* ---------------------------------------------------------------------- *)
TopK == 5

\* [state["images"][filename] for filename, _ in results]; a missing key
\* raises KeyError
Lookup(images, names) ==
    IF \A i \in 1..Len(names) : HasKey(images, names[i])
    THEN [error |-> "", found |-> [i \in 1..Len(names) |-> Get(images, names[i])]]
    ELSE [error |-> "KeyError", found |-> <<>>]

\* a search that consumes what it returns
search_images_pop(prompt, st) ==
    IF st.isNone THEN [error |-> "", gallery |-> <<>>, state |-> st]
    ELSE LET results == search_similar_images(get_text_embedding(prompt), st.embeddings, TopK)
             names == [i \in 1..Len(results) |-> results[i][1]]
             keep(d) == SelectSeq(d, LAMBDA kv : kv[1] \notin Range(names))
         IN [error |-> "", gallery |-> Lookup(st.images, names).found,
             state |-> [isNone |-> FALSE, images |-> keep(st.images),
                        embeddings |-> keep(st.embeddings)]]

\* state is the dict the callback was handed, as it is when the callback ends
search_images(prompt, st) ==
    IF st.isNone THEN [error |-> "", gallery |-> <<>>, state |-> st]
    ELSE LET text_emb == get_text_embedding(prompt)
             results == search_similar_images(text_emb, st.embeddings, TopK)
             result_images == Lookup(st.images, [i \in 1..Len(results) |-> results[i][1]])
         IN [error |-> result_images.error, gallery |-> result_images.found, state |-> st]

\* the html is kept as its sections: one per cluster id, holding the pictures
cluster_images_gui(st, num_clusters, kmeans) ==
    IF st.isNone
    THEN [error |-> "", status |-> "No images loaded.", html |-> <<>>, state |-> st]
    ELSE LET c == cluster_images(st.embeddings, num_clusters, kmeans)
         IN IF c.raised
            THEN [error |-> "ValueError", status |-> "", html |-> <<>>, state |-> st]
            ELSE LET shown == [i \in 0..(num_clusters - 1) |-> Lookup(st.images, c.clusters[i])]
                 IN [error |-> IF \E i \in 0..(num_clusters - 1) : shown[i].error # ""
                               THEN "KeyError" ELSE "",
                     status |-> "",
                     html |-> [i \in 1..num_clusters |-> <<i - 1, shown[i - 1].found>>],
                     state |-> st]

(* ---------------------------------------------------------------------- *)
(* The functions called on their own: inputs drawn by InitFn               *)
(* ---------------------------------------------------------------------- *)
MinClusters == 2
MaxClusters == 10

RECURSIVE SeqsUpTo(_, _)
SeqsUpTo(atoms, n) ==
    IF n = 0 THEN {<<>>}
    ELSE LET shorter == SeqsUpTo(atoms, n - 1)
         IN shorter \cup {Append(s, a) : s \in shorter, a \in atoms}

Urls ==
    LET tails == SeqsUpTo({"/", "a", "b"}, MaxUrlLen)
    IN {SmbPrefix \o t : t \in tails} \cup tails
       \cup {<<"s", "m", "b", ":", "/">> \o t : t \in SeqsUpTo({"a"}, 1)}

Tops == {<<"/">>, <<"/", "a">>, <<"/", "a", "/">>, <<"/", "a", "/", "b">>,
         <<"/", "b">>, <<"/", "c">>}

Vecs == {<<1, 0>>, <<2, 0>>, <<1, 1>>, <<-1, 1>>}

Key(i) == [j \in 1..i |-> "k"]

Dicts(n) == {[i \in 1..n |-> <<Key(i), v[i]>>] : v \in [1..n -> Vecs]}

ParseArgs == {[fn |-> "parse_smb_url", url |-> u] : u \in Urls}

WalkArgs ==
    UNION {{[fn |-> "smb_walk", tree |-> t, listFail |-> lf, share |-> sh, top |-> top] :
               lf \in SUBSET (DOMAIN t), sh \in {ShareName, <<"b">>}, top \in Tops} :
           t \in RemoteTrees}

SearchArgs ==
    UNION {{[fn |-> "search_similar_images", text_embedding |-> te,
             image_embeddings |-> d, top_k |-> k] :
               te \in Vecs, d \in Dicts(n), k \in (-1)..MaxTopK} : n \in 0..MaxImages}

SubsetsUpTo(S, n) == {x \in SUBSET S : Cardinality(x) <= n}

UploadFiles == {<<"/", "u", ".png">>, <<"/", "v", ".jpg">>}

FileLists == SeqsUpTo(UploadFiles, MaxFiles)

FolderPaths ==
    LET tails == SeqsUpTo({"/", "a"}, MaxUrlLen)
    IN {SmbPrefix \o t : t \in tails} \cup tails

Env(connect, tree, listFail, bad) ==
    [connect |-> connect, tree |-> tree, listFail |-> listFail, bad |-> bad]

ImageNames(tree) ==
    {n \in UNION {ListedNames(tree, key, FALSE) : key \in DOMAIN tree} : IsImageName(n)}

\* the environments that matter to a load of these inputs
Envs(files, folder_path) ==
    IF files # <<>>
    THEN {Env("ok", Tree1, {}, bad) :
             bad \in SubsetsUpTo({Basename(f) : f \in Range(files)}, MaxFail)}
    ELSE IF StartsWith(folder_path, SmbPrefix) /\ parse_smb_url(folder_path).ok
    THEN {Env(c, Tree1, {}, {}) : c \in {"refused", "raises"}}
         \cup (IF parse_smb_url(folder_path).share = ShareName
               THEN UNION {{Env("ok", t, lf, bad) :
                               lf \in SubsetsUpTo(DOMAIN t, MaxFail),
                               bad \in SubsetsUpTo(ImageNames(t), MaxFail)} :
                           t \in RemoteTrees}
               \* no other share exists: every listing fails whatever the rest
               ELSE {Env("ok", t, {}, {}) : t \in RemoteTrees})
    ELSE IF folder_path # <<>> /\ isdir(folder_path)
    THEN {Env("ok", Tree1, {}, bad) : bad \in SubsetsUpTo(ImageNames(LocalTree), MaxFail)}
    ELSE {Env("ok", Tree1, {}, {})}

LoadArgs ==
    UNION {{[fn |-> "load_images_combined", files |-> f, folder_path |-> p, env |-> e] :
               e \in Envs(f, p)} :
           <<f, p>> \in {<<f, p>> \in FileLists \X FolderPaths :
                            f = <<>> \/ p \in {<<>>, SmbPrefix \o <<"a", "/", "a">>}}}

ClusterArgs ==
    UNION {{[fn |-> "cluster_images", image_embeddings |-> d, num_clusters |-> k] :
               d \in {e \in Dicts(n) : \A i \in 1..n : e[i][2] \in {<<1, 0>>, <<-1, 1>>}},
               k \in MinClusters..MaxClusters} : n \in 1..MaxImages}

NoArgs == [fn |-> "none"]
NoOut == [done |-> FALSE, val |-> <<>>]
NoRet == [op |-> "none", error |-> "", status |-> "", gallery |-> <<>>, html |-> <<>>]
NoConn == [connects |-> 0, closes |-> 0, open |-> 0]

Return(v) == out' = [done |-> TRUE, val |-> v]

CallParse ==
    /\ args.fn = "parse_smb_url" /\ ~out.done
    /\ Return(parse_smb_url(args.url))
    /\ UNCHANGED <<state, ret, conn, args>>

CallWalk ==
    /\ args.fn = "smb_walk" /\ ~out.done
    /\ Return(smb_walk(args.tree, args.listFail, args.share, args.top))
    /\ UNCHANGED <<state, ret, conn, args>>

CallSearch ==
    /\ args.fn = "search_similar_images" /\ ~out.done
    /\ Return(search_similar_images(args.text_embedding, args.image_embeddings, args.top_k))
    /\ UNCHANGED <<state, ret, conn, args>>

CallCluster ==
    /\ args.fn = "cluster_images" /\ ~out.done
    /\ \E kmeans \in KMeansFit(Len(args.image_embeddings), args.num_clusters) :
           Return(cluster_images(args.image_embeddings, args.num_clusters, kmeans))
    /\ UNCHANGED <<state, ret, conn, args>>

CallLoad ==
    /\ args.fn = "load_images_combined" /\ ~out.done
    /\ Return(load_images_combined(args.files, args.folder_path, args.env))
    /\ UNCHANGED <<state, ret, conn, args>>

InitFn ==
    /\ args \in ParseArgs \cup WalkArgs \cup SearchArgs \cup ClusterArgs \cup LoadArgs
    /\ out = NoOut
    /\ state = None /\ ret = NoRet /\ conn = NoConn

NextFn == CallParse \/ CallWalk \/ CallSearch \/ CallCluster \/ CallLoad

SpecFn == InitFn /\ [][NextFn]_vars

(* ---------------------------------------------------------------------- *)
(* The session: the three buttons of the interface                         *)
(* ---------------------------------------------------------------------- *)
Prompts == {"cat", "dog", "bird"}

LoadOutcomes ==
    {load_images_combined(a.files, a.folder_path, a.env) : a \in LoadArgs}

\* load_button.click(..., outputs=[load_status, state_images]): the outputs
\* are written when the callback returns; when it raises they are left alone
LoadClick(old, r) ==
    IF r.raised THEN old ELSE r.state

Load ==
    \E r \in LoadOutcomes :
        /\ state' = LoadClick(state, r)
        /\ ret' = [op |-> "load", error |-> r.error, status |-> r.status,
                   gallery |-> <<>>, html |-> <<>>]
        /\ conn' = [connects |-> r.connects, closes |-> r.closes,
                    open |-> conn.open + r.connects - r.closes]
        /\ UNCHANGED <<args, out>>

Search ==
    \E prompt \in Prompts :
        LET r == search_images(prompt, state)
        IN /\ state' = r.state
           /\ ret' = [op |-> "search", error |-> r.error, status |-> "",
                      gallery |-> r.gallery, html |-> <<>>]
           /\ UNCHANGED <<conn, args, out>>

Cluster ==
    \E num_clusters \in MinClusters..MaxClusters :
        \E kmeans \in KMeansFit(Len(state.embeddings), num_clusters) :
            LET r == cluster_images_gui(state, num_clusters, kmeans)
            IN /\ state' = r.state
               /\ ret' = [op |-> "cluster", error |-> r.error, status |-> r.status,
                          gallery |-> <<>>, html |-> r.html]
               /\ UNCHANGED <<conn, args, out>>

Init ==
    /\ state = None /\ ret = NoRet /\ conn = NoConn
    /\ args = NoArgs /\ out = NoOut

Next == Load \/ Search \/ Cluster

Spec == Init /\ [][Next]_vars

(* ====================================================================== *)
(* Properties of the functions (checked under SpecFn)                      *)
(* ====================================================================== *)
Called(fn) == args.fn = fn /\ out.done

MinOf(a, b) == IF a < b THEN a ELSE b

\* C1: for top_k >= 0 and a non-empty mapping, search_similar_images returns
\* exactly min(top_k, number of images) (key, score) pairs, each key at most
\* once, each pair a key of the mapping with its own score, ordered by
\* non-increasing score, and no image left out scores above a returned one.
SearchReturnsTopK ==
    (Called("search_similar_images") /\ args.top_k >= 0 /\ Len(args.image_embeddings) > 0) =>
        LET r == out.val
            d == args.image_embeddings
            Score(k) == cosine_similarity(args.text_embedding, Get(d, k))
            returned == {r[i][1] : i \in 1..Len(r)}
        IN /\ Len(r) = MinOf(args.top_k, Len(d))
           /\ \A i, j \in 1..Len(r) : i # j => r[i][1] # r[j][1]
           /\ \A i \in 1..Len(r) : r[i][1] \in Keys(d) /\ r[i][2] = Score(r[i][1])
           /\ \A i, j \in 1..Len(r) : i < j => ~SimLess(r[i][2], r[j][2])
           /\ \A k \in Keys(d) \ returned :
                  \A i \in 1..Len(r) : ~SimLess(r[i][2], Score(k))

\* a search that leaves images out, over scores that differ and scores that tie
SearchWitness ==
    /\ Called("search_similar_images")
    /\ args.top_k = 2 /\ Len(args.image_embeddings) = 3 /\ Len(out.val) = 2
    /\ out.val[1][1] = Key(3)
    /\ SimLess(out.val[2][2], out.val[1][2])
    /\ \E k \in Keys(args.image_embeddings) :
           /\ k \notin {out.val[1][1], out.val[2][1]}
           /\ cosine_similarity(args.text_embedding, Get(args.image_embeddings, k))
                  = out.val[2][2]

\* C2: cluster_images returns exactly num_clusters groups keyed
\* 0..num_clusters-1 and every image key is in exactly one group, also when
\* num_clusters exceeds the number of images.
ClusterPartitionsAll ==
    Called("cluster_images") =>
        LET c == out.val.clusters
            d == args.image_embeddings
        IN /\ ~out.val.raised
           /\ DOMAIN c = 0..(args.num_clusters - 1)
           /\ \A k \in Keys(d) :
                  Cardinality({<<i, n>> \in UNION {{i} \X (1..Len(c[i])) : i \in DOMAIN c} :
                                  c[i][n] = k}) = 1

\* C8: smb_walk yields exactly the directories under the start path whose
\* listing and whose ancestors' listings (from the start path down) succeed,
\* each once, parent before children, with the listing's names except "."
\* and "..".
IsPrefix(p, q) == Len(p) <= Len(q) /\ SubSeq(q, 1, Len(p)) = p

Listable(tree, listFail, share, key) ==
    share = ShareName /\ key \in DOMAIN tree /\ key \notin listFail

Walked(tree, listFail, share, top) ==
    {d \in DOMAIN tree :
        /\ IsPrefix(Segments(top), d)
        /\ \A n \in Len(Segments(top))..Len(d) :
               Listable(tree, listFail, share, SubSeq(d, 1, n))}

WalkYieldsReachable ==
    Called("smb_walk") =>
        LET w == out.val
            at(i) == Segments(w[i][1])
        IN /\ {at(i) : i \in 1..Len(w)}
                  = Walked(args.tree, args.listFail, args.share, args.top)
           /\ \A i, j \in 1..Len(w) : i # j => at(i) # at(j)
           /\ \A i, j \in 1..Len(w) : (IsPrefix(at(i), at(j)) /\ at(i) # at(j)) => i < j
           /\ \A i \in 1..Len(w) :
                  /\ Range(w[i][2]) = ListedNames(args.tree, at(i), TRUE)
                  /\ Range(w[i][3]) = ListedNames(args.tree, at(i), FALSE)
                  /\ Range(w[i][2]) \cap {<<".">>, <<"..">>} = {}
                  /\ Range(w[i][3]) \cap {<<".">>, <<"..">>} = {}

\* the listing of /a fails and its later sibling /b is still walked
WalkWitness ==
    /\ Called("smb_walk")
    /\ args.tree = Tree1 /\ args.share = ShareName /\ args.top = <<"/">>
    /\ args.listFail = {<< <<"a">> >>}
    /\ Len(out.val) = 2
    /\ out.val[1] = <<<<"/">>, <<<<"a">>, <<"b">>>>, <<<<"p", ".png">>, <<"n", ".txt">>>>>>
    /\ out.val[2][1] = <<"/", "b">>

\* C9: parse_smb_url accepts exactly the URLs that start with smb:// and hold
\* a server and a share, and returns "/" followed by the remaining path
\* segments ("/" when there are none) as rel_path.
HasServerAndShare(url) ==
    /\ StartsWith(url, SmbPrefix)
    /\ LET parts == Split(SubSeq(url, Len(SmbPrefix) + 1, Len(url)))
       IN Len(parts) >= 2 /\ parts[1] # <<>> /\ parts[2] # <<>>

ParseAcceptsServerAndShare ==
    Called("parse_smb_url") =>
        /\ out.val.ok <=> HasServerAndShare(args.url)
        /\ out.val.ok =>
               LET parts == Split(SubSeq(args.url, Len(SmbPrefix) + 1, Len(args.url)))
                   rest == SelectSeq(SubSeq(parts, 3, Len(parts)), NonEmpty)
               IN out.val.rel_path = <<"/">> \o JoinSlash(rest)

\* C4: a file that cannot be retrieved or decoded is skipped and nothing
\* else: every candidate file is attempted, the images are exactly the
\* candidates that opened, and the load succeeds when one of them opened.
ReachesFiles(a) ==
    \/ a.files # <<>>
    \/ /\ StartsWith(a.folder_path, SmbPrefix)
       /\ parse_smb_url(a.folder_path).ok /\ a.env.connect = "ok"
    \/ /\ a.folder_path # <<>> /\ ~StartsWith(a.folder_path, SmbPrefix)
       /\ isdir(a.folder_path)

\* the candidate files of a load, each as the segments of its path
Candidates(a) ==
    IF a.files # <<>> THEN {Segments(f) : f \in Range(a.files)}
    ELSE IF StartsWith(a.folder_path, SmbPrefix)
    THEN LET p == parse_smb_url(a.folder_path)
         IN UNION {{Append(d, n) : n \in {m \in ListedNames(a.env.tree, d, FALSE) :
                                              IsImageName(m)}} :
                   d \in Walked(a.env.tree, a.env.listFail, p.share, p.rel_path)}
    ELSE UNION {{Append(d, n) : n \in {m \in ListedNames(LocalTree, d, FALSE) :
                                           IsImageName(m)}} :
                d \in {e \in DOMAIN LocalTree : IsPrefix(Segments(a.folder_path), e)}}

LoadSkipsFailedFiles ==
    (Called("load_images_combined") /\ ReachesFiles(args)) =>
        LET r == out.val
            opened == {c \in Candidates(args) : Last(c) \notin args.env.bad}
        IN /\ ~r.raised
           /\ {Segments(f) : f \in Range(r.attempted)} = Candidates(args)
           /\ {Segments(k) : k \in Keys(r.state.images)} = opened
           /\ Len(r.state.images) = Cardinality(opened)
           /\ (opened # {}) <=> (r.status = "Images loaded successfully")
           /\ (opened = {}) <=> (r.status = "No images loaded")

\* a remote file fails, a later one loads, and the load succeeds
LoadSkipsWitness ==
    /\ Called("load_images_combined")
    /\ args.files = <<>> /\ args.env.connect = "ok" /\ args.env.bad # {}
    /\ out.val.status = "Images loaded successfully"
    /\ \E i, j \in 1..Len(out.val.attempted) :
           /\ i < j
           /\ OpenFails(out.val.attempted[i], args.env.bad)
           /\ HasKey(out.val.state.images, out.val.attempted[j])

\* C5: a load never raises; after a connection failure or an invalid input
\* it returns a status and None; a state is returned only with "Images
\* loaded successfully" and then holds an image.
InvalidInput(a) ==
    /\ a.files = <<>>
    /\ \/ a.folder_path = <<>>
       \/ StartsWith(a.folder_path, SmbPrefix) /\ ~HasServerAndShare(a.folder_path)
       \/ StartsWith(a.folder_path, SmbPrefix) /\ a.env.connect # "ok"
       \/ ~StartsWith(a.folder_path, SmbPrefix) /\ ~isdir(a.folder_path)

LoadReturnsStatus ==
    Called("load_images_combined") =>
        /\ ~out.val.raised
        /\ out.val.status # ""
        /\ InvalidInput(args) => out.val.state.isNone
        /\ ~out.val.state.isNone =>
               /\ out.val.status = "Images loaded successfully"
               /\ Len(out.val.state.images) >= 1

(* ====================================================================== *)
(* Properties of the session (checked under Spec)                          *)
(* ====================================================================== *)
\* C3: every key of the embeddings is a key of the images, so the lookups
\* of search_images and cluster_images_gui never miss.
EmbeddingKeysHaveImages ==
    /\ ~state.isNone => Keys(state.embeddings) \subseteq Keys(state.images)
    /\ ret.error # "KeyError"

\* three images loaded and shown by a clustering
EmbeddingKeysWitness ==
    /\ ~state.isNone /\ Len(state.embeddings) = 3
    /\ ret.op = "cluster" /\ ret.error = ""
    /\ \E i \in 1..Len(ret.html) : Len(ret.html[i][2]) >= 2

StateIsLastLoad ==
    ret.op = "load" =>
        IF ret.status = "Images loaded successfully" THEN ~state.isNone ELSE state.isNone

====
